---- MODULE Spec2Model ----
(***************************************************************************)
(* Model of the UPRISE content server (src/server.js and its bcrypt        *)
(* variant src/unnamed/part_000): the content table, the admin_settings    *)
(* table, the uploads directory and the HTTP handlers that act on them.    *)
(* Every SQL statement and every callback between two statements is one    *)
(* atomic step; a request that needs several steps is held, between two of *)
(* them, in the bag `inflight`.                                            *)
(***************************************************************************)
EXTENDS Integers, Sequences, FiniteSets, Bags, TLC

VARIABLES
    variant,    \* which of the two source files is running
    content,    \* rows of table content
    seq,        \* sqlite_sequence of table content (AUTOINCREMENT)
    admin,      \* rows of table admin_settings
    uploads,    \* file names present in the uploads directory
    made,       \* number of unique file names generated so far
    now,        \* CURRENT_TIMESTAMP
    initPc,     \* position of initDatabase's credential set-up
    inflight,   \* the requests between two of their steps, with their locals
    res         \* the response sent by the latest step, with its request

vars == <<variant, content, seq, admin, uploads, made, now, initPc, inflight, res>>

----------------------------------------------------------------------------
(* Bounds of the model *)

\* requests that may be between two of their steps at the same time
MaxInFlight == 2
\* rows ever inserted into content (values of the AUTOINCREMENT counter)
MaxId == 2
\* files ever stored by multer
MaxFiles == 2
\* values of CURRENT_TIMESTAMP after the first
MaxClock == 1
\* distinct salts bcrypt.hash may draw
MaxSalt == 1
\* rows ever inserted into admin_settings
MaxRecords == 2

Salts == 1..MaxSalt

----------------------------------------------------------------------------
(* Values *)

\* a field absent from a request (JavaScript undefined), bound as SQL NULL
Undefined == "undefined"
NULL == "NULL"
\* NULL of column file_path, whose values are paths (sequences)
NullPath == <<>>
\* an absent chapter, among chapters that are digit strings
UndefinedChapter == <<Undefined>>
\* no file in the request; multer sets filename when it stores a file
NoName == <<0, <<>>>>
NoFile == [originalname |-> <<>>, mimetype |-> <<>>, filename |-> NoName]
NoRow == [file_path |-> <<"no row">>]
NoReq == [op |-> "none"]
NoRes == [op |-> "none"]

defaultPassword == "admin123"
Passwords == {defaultPassword, "s3cret"}
\* the passwords that requests of overlapping rotations ask for
NewPasswords == {"s3cret", "hunter2"}
\* what a request may carry as a credential; no handler of content reads it
Credentials == {Undefined, defaultPassword}

Texts == {"A", "B"}

\* chapters and ids arrive as decimal strings (URL parameters, form fields)
IdParams == {<<"1">>, <<"0", "2">>}

\* the (subject, feature, chapter) of the requests
Key1 == [subject |-> "bio", feature |-> "notes", chapter |-> <<"2">>]
Key1Padded == [subject |-> "bio", feature |-> "notes", chapter |-> <<"0", "2">>]
Key2 == [subject |-> "bio", feature |-> "notes", chapter |-> <<"1", "0">>]
KeyNoSubject == [subject |-> Undefined, feature |-> "notes", chapter |-> <<"2">>]
KeyChem == [subject |-> "chem", feature |-> "notes", chapter |-> <<"2">>]
KeyParams == {Key1, Key1Padded, Key2, KeyNoSubject}

\* the files of the upload requests: original name and declared content type
PngFile ==
    [originalname |-> <<"a", ".", "P", "N", "G">>,
     mimetype |-> <<"i", "m", "a", "g", "e", "/", "p", "n", "g">>,
     filename |-> NoName]
ExeFile ==
    [originalname |-> <<"a", ".", "e", "x", "e">>,
     mimetype |-> <<"i", "m", "a", "g", "e", "/", "p", "n", "g">>,
     filename |-> NoName]
MislabelledFile ==
    [originalname |-> <<"a", ".", "p", "n", "g">>,
     mimetype |-> <<"t", "e", "x", "t", "/", "x">>,
     filename |-> NoName]
Files == {PngFile, ExeFile, MislabelledFile}

----------------------------------------------------------------------------
(* Strings *)

UpperCase == <<"A","B","C","D","E","F","G","H","I","J","K","L","M",
               "N","O","P","Q","R","S","T","U","V","W","X","Y","Z">>
LowerCase == <<"a","b","c","d","e","f","g","h","i","j","k","l","m",
               "n","o","p","q","r","s","t","u","v","w","x","y","z">>

toLowerCase(s) ==
    [i \in 1..Len(s) |->
        IF \E j \in 1..Len(UpperCase) : UpperCase[j] = s[i]
        THEN LowerCase[CHOOSE j \in 1..Len(UpperCase) : UpperCase[j] = s[i]]
        ELSE s[i]]

\* path.extname: from the last "." to the end; "" when there is none or
\* when the name starts with its only "."
extname(name) ==
    LET dots == {i \in 1..Len(name) : name[i] = "."}
        last == CHOOSE i \in dots : \A j \in dots : j <= i
    IN  IF dots = {} \/ last = 1 THEN <<>> ELSE SubSeq(name, last, Len(name))

\* an unanchored match of the literal p somewhere in s
Contains(s, p) ==
    \E i \in 1..(Len(s) - Len(p) + 1) : SubSeq(s, i, i + Len(p) - 1) = p

\* /pdf|doc|docx|txt|png|jpg|jpeg/
allowedTypes ==
    { <<"p","d","f">>, <<"d","o","c">>, <<"d","o","c","x">>, <<"t","x","t">>,
      <<"p","n","g">>, <<"j","p","g">>, <<"j","p","e","g">> }

RegexTest(s) == \E p \in allowedTypes : Contains(s, p)

\* multer's fileFilter: extension and declared type must both match
fileFilter_either(file) ==
    \/ RegexTest(toLowerCase(extname(file.originalname)))
    \/ RegexTest(file.mimetype)

fileFilter(file) ==
    /\ RegexTest(toLowerCase(extname(file.originalname)))
    /\ RegexTest(file.mimetype)

Digits == <<"0","1","2","3","4","5","6","7","8","9">>
DigitValue(c) == (CHOOSE i \in 1..10 : Digits[i] = c) - 1

\* SQLite's INTEGER affinity applied to a decimal string
RECURSIVE ToInteger(_)
ToInteger(s) ==
    IF s = <<>> THEN 0
    ELSE 10 * ToInteger(SubSeq(s, 1, Len(s) - 1)) + DigitValue(s[Len(s)])

\* a request field bound to a statement: undefined is bound as NULL
Bind(v) == IF v = Undefined THEN NULL ELSE v

----------------------------------------------------------------------------
(* The database *)

\* CREATE TABLE content: subject, feature and chapter are NOT NULL, so a
\* statement that binds NULL (an absent field) to one of them fails
NotNullViolated(key) ==
    \/ Bind(key.subject) = NULL
    \/ Bind(key.feature) = NULL
    \/ key.chapter = UndefinedChapter

Conflicting_sameText(rows, row) ==
    {o \in rows : /\ o.subject = row.subject
                  /\ o.feature = row.feature
                  /\ o.chapter = row.chapter
                  /\ o.text_content = row.text_content}

\* UNIQUE(subject, feature, chapter): the rows a new row conflicts with
Conflicting(rows, row) ==
    {o \in rows : /\ o.subject = row.subject
                  /\ o.feature = row.feature
                  /\ o.chapter = row.chapter}

InsertOrReplace_keepOld(rows, row) == rows \cup {row}

\* INSERT OR REPLACE: the conflicting rows are deleted, the new row inserted
InsertOrReplace(rows, row) == (rows \ Conflicting(rows, row)) \cup {row}

\* the row an INSERT OR REPLACE of the handlers builds: a new AUTOINCREMENT
\* id, the columns the statement names, NULL for the column it leaves out,
\* created_at by its default and updated_at by the statement
NewRow(key, content_type, file_path, text_content) ==
    [id |-> seq + 1,
     subject |-> Bind(key.subject),
     feature |-> Bind(key.feature),
     chapter |-> ToInteger(key.chapter),
     content_type |-> content_type,
     file_path |-> file_path,
     text_content |-> text_content,
     created_at |-> now,
     updated_at |-> now]

SelectContent_anyChapter(key) ==
    {row \in content : row.subject = key.subject /\ row.feature = key.feature}

\* SELECT * FROM content WHERE subject = ? AND feature = ? AND chapter = ?
SelectContent(key) ==
    {row \in content : /\ row.subject = key.subject
                       /\ row.feature = key.feature
                       /\ row.chapter = ToInteger(key.chapter)}

\* SELECT file_path FROM content WHERE id = ?
SelectFilePath(id) ==
    IF \E row \in content : row.id = ToInteger(id)
    THEN [file_path |-> (CHOOSE row \in content : row.id = ToInteger(id)).file_path]
    ELSE NoRow

DeleteById_none(rows, id) == rows

\* DELETE FROM content WHERE id = ?
DeleteById(rows, id) == {row \in rows : row.id # ToInteger(id)}

\* the bytes of the strings stored in the TEXT columns of the key
Bytes(s) ==
    CASE s = "bio" -> <<98, 105, 111>>
      [] s = "chem" -> <<99, 104, 101, 109>>
      [] s = "notes" -> <<110, 111, 116, 101, 115>>
      [] OTHER -> <<>>

\* memcmp, the BINARY collation
RECURSIVE BytesLess(_, _)
BytesLess(a, b) ==
    IF b = <<>> THEN FALSE
    ELSE IF a = <<>> THEN TRUE
    ELSE IF a[1] # b[1] THEN a[1] < b[1]
    ELSE BytesLess(Tail(a), Tail(b))

RowLess_byId(a, b) == a.id < b.id

\* ORDER BY subject, feature, chapter
RowLess(a, b) ==
    \/ BytesLess(Bytes(a.subject), Bytes(b.subject))
    \/ /\ a.subject = b.subject
       /\ \/ BytesLess(Bytes(a.feature), Bytes(b.feature))
          \/ /\ a.feature = b.feature
             /\ a.chapter < b.chapter

RECURSIVE OrderBy(_)
OrderBy(rows) ==
    IF rows = {} THEN <<>>
    ELSE LET first == CHOOSE r \in rows : \A o \in rows : ~RowLess(o, r)
         IN  <<first>> \o OrderBy(rows \ {first})

\* SELECT * FROM content ORDER BY subject, feature, chapter
SelectAll == OrderBy(content)

\* SELECT ... FROM admin_settings WHERE id = 1
AdminRows == {a \in admin : a.id = 1}

----------------------------------------------------------------------------
(* Credentials *)

\* bcrypt.hash(password, 10): a salted hash, which the model keeps readable
BcryptHash(password, salt) == <<"$2b$10$", salt, password>>

BcryptCompare_anyPassword(password, hash) == hash[1] = "$2b$10$"

\* bcrypt.compare(password, hash)
BcryptCompare(password, hash) == hash[1] = "$2b$10$" /\ hash[3] = password

\* what the running variant stores for a password
Stored(password, salt) ==
    IF variant = "server.js" THEN password ELSE BcryptHash(password, salt)

Matches_always(password) == TRUE

\* row && row.password_hash === password, or the bcrypt comparison
Matches(password) ==
    \E row \in AdminRows :
        IF variant = "server.js"
        THEN row.password_hash = password
        ELSE BcryptCompare(password, row.password_hash)

\* UPDATE admin_settings SET password_hash = ? WHERE id = 1
UpdateHash(rows, hash) ==
    {IF a.id = 1 THEN [a EXCEPT !.password_hash = hash] ELSE a : a \in rows}

----------------------------------------------------------------------------
(* Requests and responses *)

\* the message of a response, which differs between the two files
Msg(inServer, inVariant) == IF variant = "server.js" THEN inServer ELSE inVariant

\* res.status(status).json({success, message, ...body})
Json(op, request, status, success, message, body) ==
    [op |-> op, req |-> request, status |-> status, success |-> success,
     message |-> message, body |-> body]

InFlight == BagToSet(inflight)

\* a new request that will wait for a statement is accepted
Room == BagCardinality(inflight) < MaxInFlight

\* the request waits for its next step
Hold(request) == inflight' = inflight (+) SetToBag({request})

\* the held request rq goes on to its next step, as request `next`
Step(rq, next) == inflight' = (inflight (-) SetToBag({rq})) (+) SetToBag({next})

\* the held request rq is answered
Release(rq) == inflight' = inflight (-) SetToBag({rq})

\* '/uploads/' + req.file.filename
UploadPath(filename) == <<"/uploads/", filename>>

\* path.basename(row.file_path)
basename(file_path) == file_path[Len(file_path)]

----------------------------------------------------------------------------
(* initDatabase: the default credential *)

Init ==
    /\ variant \in {"server.js", "part_000"}
    /\ content = {}
    /\ seq = 0
    /\ admin = {}
    /\ uploads = {}
    /\ made = 0
    /\ now = 0
    /\ initPc = "select"
    /\ inflight = EmptyBag
    /\ res = NoRes

\* db.get('SELECT * FROM admin_settings WHERE id = 1', ...): if (!row)
InitSelect ==
    /\ initPc = "select"
    /\ initPc' = IF AdminRows = {} THEN "insert" ELSE "done"
    /\ res' = NoRes
    /\ UNCHANGED <<variant, content, seq, admin, uploads, made, now, inflight>>

\* the same callback when the SELECT fails (SQLITE_BUSY, an I/O error): it
\* is called with err set and row undefined, and reads only row
InitSelectFails ==
    /\ initPc = "select"
    /\ Cardinality(admin) < MaxRecords
    /\ initPc' = "insert"
    /\ res' = NoRes
    /\ UNCHANGED <<variant, content, seq, admin, uploads, made, now, inflight>>

\* db.run('INSERT INTO admin_settings (password_hash) VALUES (?)', ...)
InitInsert(salt) ==
    /\ initPc = "insert"
    /\ admin' = admin \cup
          {[id |-> Cardinality(admin) + 1,
            password_hash |-> Stored(defaultPassword, salt)]}
    /\ initPc' = "done"
    /\ res' = NoRes
    /\ UNCHANGED <<variant, content, seq, uploads, made, now, inflight>>

----------------------------------------------------------------------------
(* The credential routes *)

\* POST /api/verify-password
VerifyPassword(password, err) ==
    /\ res' = LET request == [password |-> password]
              IN  IF err
                  THEN Json("verify-password", request, 500, FALSE, "Database error", NULL)
                  ELSE IF Matches(password)
                  THEN Json("verify-password", request, 200, TRUE, NULL, NULL)
                  ELSE Json("verify-password", request, 200, FALSE,
                            "Incorrect password", NULL)
    /\ UNCHANGED <<variant, content, seq, admin, uploads, made, now, initPc, inflight>>

\* POST /api/change-password: the SELECT and the comparison of oldPassword
ChangePasswordSelect(oldPassword, newPassword, err) ==
    /\ Room
    /\ LET request == [op |-> "change-password", at |-> "update",
                       oldPassword |-> oldPassword, newPassword |-> newPassword]
       IN  IF err
           THEN /\ res' = Json("change-password", request, 500, FALSE,
                               "Database error", NULL)
                /\ UNCHANGED inflight
           ELSE IF Matches(oldPassword)
           THEN /\ Hold(request)
                /\ res' = NoRes
           ELSE /\ res' = Json("change-password", request, 200, FALSE,
                               Msg("Incorrect old password", "Old password incorrect"),
                               NULL)
                /\ UNCHANGED inflight
    /\ UNCHANGED <<variant, content, seq, admin, uploads, made, now, initPc>>

\* POST /api/change-password: the UPDATE and its callback
ChangePasswordUpdate(rq, salt, err) ==
    /\ rq \in InFlight
    /\ rq.op = "change-password"
    /\ IF err
       THEN /\ res' = Json("change-password", rq, 500, FALSE,
                           "Failed to update password", NULL)
            /\ admin' = admin
       ELSE /\ admin' = UpdateHash(admin, Stored(rq.newPassword, salt))
            /\ res' = Json("change-password", rq, 200, TRUE,
                           Msg("Password changed successfully",
                               "Password updated successfully!"), NULL)
    /\ Release(rq)
    /\ UNCHANGED <<variant, content, seq, uploads, made, now, initPc>>

----------------------------------------------------------------------------
(* The content routes *)

\* POST /api/upload-file: upload.single('file'), then the handler up to its
\* statement. A file the filter refuses is never stored and the error goes
\* to the default error handler; without a file the handler answers 400.
UploadFileReceive(key, file, password) ==
    /\ Room
    /\ LET request == [op |-> "upload-file", at |-> "insert",
                       subject |-> key.subject, feature |-> key.feature,
                       chapter |-> key.chapter, file |-> file, password |-> password]
           filename == <<made + 1, extname(file.originalname)>>
       IN  IF file = NoFile
           THEN /\ res' = Json("upload-file", request, 400, FALSE,
                               "No file uploaded", NULL)
                /\ UNCHANGED <<uploads, made, inflight>>
           ELSE IF ~fileFilter(file)
           THEN /\ res' = Json("upload-file", request, 500, FALSE,
                               Msg("Only PDF, DOC, DOCX, TXT, and image files are allowed!",
                                   "Only PDF, DOCX, TXT, and image files are allowed!"),
                               NULL)
                /\ UNCHANGED <<uploads, made, inflight>>
           ELSE /\ made < MaxFiles
                /\ made' = made + 1
                /\ uploads' = uploads \cup {filename}
                /\ Hold([request EXCEPT !.file = [file EXCEPT !.filename = filename]])
                /\ res' = NoRes
    /\ UNCHANGED <<variant, content, seq, admin, now, initPc>>

\* POST /api/upload-file: the INSERT OR REPLACE and its callback
UploadFileInsert(rq, err) ==
    /\ rq \in InFlight
    /\ rq.op = "upload-file"
    /\ LET filePath == UploadPath(rq.file.filename)
           row == NewRow(rq, "file", filePath, NULL)
       IN  IF err \/ NotNullViolated(rq)
           THEN /\ res' = Json("upload-file", rq, 500, FALSE, "Database error", NULL)
                /\ UNCHANGED <<content, seq>>
           ELSE /\ seq < MaxId
                /\ content' = InsertOrReplace(content, row)
                /\ seq' = row.id
                /\ res' = Json("upload-file", rq, 200, TRUE,
                               "File uploaded successfully", filePath)
    /\ Release(rq)
    /\ UNCHANGED <<variant, admin, uploads, made, now, initPc>>

\* POST /api/save-text
SaveText(key, text, password, err) ==
    /\ LET request == [op |-> "save-text", subject |-> key.subject,
                       feature |-> key.feature, chapter |-> key.chapter,
                       content |-> text, password |-> password]
           row == NewRow(key, "text", NullPath, Bind(text))
       IN  IF err \/ NotNullViolated(key)
           THEN /\ res' = Json("save-text", request, 500, FALSE, "Database error", NULL)
                /\ UNCHANGED <<content, seq>>
           ELSE /\ seq < MaxId
                /\ content' = InsertOrReplace(content, row)
                /\ seq' = row.id
                /\ res' = Json("save-text", request, 200, TRUE,
                               Msg("Content saved successfully",
                                   "Text saved successfully"), NULL)
    /\ UNCHANGED <<variant, admin, uploads, made, now, initPc, inflight>>

\* POST /api/save-text as its three steps: the handler queues the statement,
\* the statement runs, and its callback answers. SaveText above is the three
\* taken at once, which is what a request alone on the server does.
SaveTextQueue(key, text, password) ==
    /\ Room
    /\ Hold([op |-> "save-text", at |-> "run", subject |-> key.subject,
             feature |-> key.feature, chapter |-> key.chapter,
             content |-> text, password |-> password])
    /\ res' = NoRes
    /\ UNCHANGED <<variant, content, seq, admin, uploads, made, now, initPc>>

\* the INSERT OR REPLACE of a queued save-text; the statement object keeps
\* the error and the rowid of the row it inserted (this.lastID)
SaveTextRun(rq, err) ==
    /\ rq \in InFlight
    /\ rq.op = "save-text" /\ rq.at = "run"
    /\ LET row == NewRow(rq, "text", NullPath, Bind(rq.content))
       IN  IF err \/ NotNullViolated(rq)
           THEN /\ Step(rq, [op |-> "save-text", at |-> "respond",
                             subject |-> rq.subject, feature |-> rq.feature,
                             chapter |-> rq.chapter, content |-> rq.content,
                             password |-> rq.password, err |-> TRUE, lastID |-> 0])
                /\ UNCHANGED <<content, seq>>
           ELSE /\ seq < MaxId
                /\ content' = InsertOrReplace(content, row)
                /\ seq' = row.id
                /\ Step(rq, [op |-> "save-text", at |-> "respond",
                             subject |-> rq.subject, feature |-> rq.feature,
                             chapter |-> rq.chapter, content |-> rq.content,
                             password |-> rq.password, err |-> FALSE,
                             lastID |-> row.id])
    /\ res' = NoRes
    /\ UNCHANGED <<variant, admin, uploads, made, now, initPc>>

\* the callback of the statement: if (err) 500, else success
SaveTextCallback(rq) ==
    /\ rq \in InFlight
    /\ rq.op = "save-text" /\ rq.at = "respond"
    /\ res' = IF rq.err
              THEN Json("save-text", rq, 500, FALSE, "Database error", NULL)
              ELSE Json("save-text", rq, 200, TRUE,
                        Msg("Content saved successfully", "Text saved successfully"),
                        NULL)
    /\ Release(rq)
    /\ UNCHANGED <<variant, content, seq, admin, uploads, made, now, initPc>>

\* the answer of GET /api/content/:subject/:feature/:chapter
ContentJson(key) ==
    IF SelectContent(key) # {}
    THEN Json("content", key, 200, TRUE, NULL, CHOOSE row \in SelectContent(key) : TRUE)
    ELSE Json("content", key, 200, FALSE, "No content found", NULL)

\* GET /api/content/:subject/:feature/:chapter
GetContent(key, err) ==
    /\ res' = IF err
              THEN Json("content", key, 500, FALSE, "Database error", NULL)
              ELSE ContentJson(key)
    /\ UNCHANGED <<variant, content, seq, admin, uploads, made, now, initPc, inflight>>

\* GET /api/all-content
AllContent(err) ==
    /\ res' = IF err
              THEN Json("all-content", NoReq, 500, FALSE, "Database error", NULL)
              ELSE Json("all-content", NoReq, 200, TRUE, NULL, SelectAll)
    /\ UNCHANGED <<variant, content, seq, admin, uploads, made, now, initPc, inflight>>

\* DELETE /api/content/:id: the SELECT of the row's file_path
DeleteSelect(id, password, err) ==
    /\ Room
    /\ LET request == [op |-> "delete", at |-> "unlink", id |-> id,
                       password |-> password, row |-> SelectFilePath(id)]
       IN  IF err
           THEN /\ res' = Json("delete", [request EXCEPT !.row = NoRow], 500, FALSE,
                               "Database error", NULL)
                /\ UNCHANGED inflight
           ELSE /\ Hold(request)
                /\ res' = NoRes
    /\ UNCHANGED <<variant, content, seq, admin, uploads, made, now, initPc>>

\* DELETE /api/content/:id: the callback of the SELECT, which removes the
\* file if (row && row.file_path) and the file exists, and issues the DELETE
DeleteUnlink(rq) ==
    /\ rq \in InFlight
    /\ rq.op = "delete" /\ rq.at = "unlink"
    /\ uploads' =
          IF rq.row # NoRow /\ rq.row.file_path # NullPath
          THEN uploads \ {basename(rq.row.file_path)}
          ELSE uploads
    /\ Step(rq, [rq EXCEPT !.at = "delete"])
    /\ res' = NoRes
    /\ UNCHANGED <<variant, content, seq, admin, made, now, initPc>>

\* DELETE /api/content/:id: the DELETE and its callback
DeleteRun(rq, err) ==
    /\ rq \in InFlight
    /\ rq.op = "delete" /\ rq.at = "delete"
    /\ IF err
       THEN /\ res' = Json("delete", rq, 500, FALSE,
                           Msg("Failed to delete", "Delete failed"), NULL)
            /\ content' = content
       ELSE /\ content' = DeleteById(content, rq.id)
            /\ res' = Json("delete", rq, 200, TRUE,
                           Msg("Content deleted successfully", "Deleted successfully"),
                           NULL)
    /\ Release(rq)
    /\ UNCHANGED <<variant, seq, admin, uploads, made, now, initPc>>

\* the process has ended: an exception that no handler catches ends it with
\* exit code 1, and nothing is answered any more
Exited(rq) == [op |-> "exit", code |-> 1, req |-> rq]
Serving == res.op # "exit"

\* DELETE /api/content/:id: the callback of the SELECT when fs.unlinkSync
\* throws (EPERM, EBUSY, ...) on the file that existsSync found. Nothing
\* catches the exception: the DELETE is never issued and the process ends,
\* with every request it held.
DeleteUnlinkThrows(rq) ==
    /\ rq \in InFlight
    /\ rq.op = "delete" /\ rq.at = "unlink"
    /\ rq.row # NoRow /\ rq.row.file_path # NullPath
    /\ basename(rq.row.file_path) \in uploads
    /\ inflight' = EmptyBag
    /\ res' = Exited(rq)
    /\ UNCHANGED <<variant, content, seq, admin, uploads, made, now, initPc>>

\* the process is started again on the database file and the uploads
\* directory it left: no request is held, and initDatabase runs anew
Restart ==
    /\ inflight' = EmptyBag
    /\ initPc' = "select"
    /\ res' = NoRes
    /\ UNCHANGED <<variant, content, seq, admin, uploads, made, now>>

\* the clock CURRENT_TIMESTAMP reads
Tick ==
    /\ now < MaxClock
    /\ now' = now + 1
    /\ res' = NoRes
    /\ UNCHANGED <<variant, content, seq, admin, uploads, made, initPc, inflight>>

----------------------------------------------------------------------------
(* Specifications *)

\* the routes of the credential, with initDatabase's set-up of it
NextCredentials ==
    \/ InitSelect
    \/ \E salt \in Salts : InitInsert(salt)
    \/ \E p \in Passwords, err \in BOOLEAN : VerifyPassword(p, err)
    \/ \E old \in Passwords, new \in Passwords, err \in BOOLEAN :
          ChangePasswordSelect(old, new, err)
    \/ \E rq \in InFlight, salt \in Salts, err \in BOOLEAN :
          ChangePasswordUpdate(rq, salt, err)

\* the routes that write the content table and the uploads directory, by
\* requests that carry no credential; the answers that change nothing (a
\* failed statement of a one-step route) are drawn for one request each
NextContent ==
    \/ \E key \in {Key1, KeyNoSubject} : UploadFileReceive(key, PngFile, Undefined)
    \/ \E rq \in InFlight, err \in BOOLEAN : UploadFileInsert(rq, err)
    \/ \E key \in {Key1, Key1Padded, Key2}, text \in Texts :
          SaveText(key, text, Undefined, FALSE)
    \/ \E err \in BOOLEAN : SaveText(KeyNoSubject, "A", Undefined, err)
    \/ \E id \in IdParams : DeleteSelect(id, Undefined, FALSE)
    \/ DeleteSelect(<<"1">>, Undefined, TRUE)
    \/ \E rq \in InFlight : DeleteUnlink(rq)
    \/ \E rq \in InFlight, err \in BOOLEAN : DeleteRun(rq, err)

\* The content routes never read admin_settings and the credential routes
\* never read content or uploads, so each group is checked on its own. The
\* content routes of the two files are the same statements, and are checked
\* as server.js has them.
InitContent == Init /\ variant = "server.js"
SpecContent == InitContent /\ [][NextContent]_vars
SpecCredentials == Init /\ [][NextCredentials]_vars

\* the upload route with the files its filter refuses, beside the routes
\* that read the table
NextUpload ==
    \/ \E file \in Files \cup {NoFile} : UploadFileReceive(Key1, file, Undefined)
    \/ UploadFileReceive(Key2, PngFile, Undefined)
    \/ \E rq \in InFlight, err \in BOOLEAN : UploadFileInsert(rq, err)
    \/ \E text \in Texts : SaveText(Key1Padded, text, Undefined, FALSE)
    \/ \E key \in {Key1Padded, Key2}, err \in BOOLEAN : GetContent(key, err)
    \/ \E err \in BOOLEAN : AllContent(err)
    \/ DeleteSelect(<<"1">>, Undefined, FALSE)
    \/ \E rq \in InFlight : DeleteUnlink(rq)
    \/ \E rq \in InFlight : DeleteRun(rq, FALSE)

SpecUpload == InitContent /\ [][NextUpload]_vars

\* save-text requests that overlap: several may be queued before the
\* statement of any of them runs, and answered in any order
NextSaveText ==
    \/ \E key \in {Key1, Key1Padded, Key2}, text \in Texts :
          SaveTextQueue(key, text, Undefined)
    \/ SaveTextQueue(KeyNoSubject, "A", Undefined)
    \/ \E rq \in InFlight, err \in BOOLEAN : SaveTextRun(rq, err)
    \/ \E rq \in InFlight : SaveTextCallback(rq)
    \/ UploadFileReceive(Key1, PngFile, Undefined)
    \/ \E rq \in InFlight : UploadFileInsert(rq, FALSE)

SpecSaveText == InitContent /\ [][NextSaveText]_vars

\* the listing, over rows of several subjects and chapters written and
\* deleted in any order
NextList ==
    \/ \E key \in {Key1, Key2, KeyChem} : SaveText(key, "A", Undefined, FALSE)
    \/ UploadFileReceive(Key1Padded, PngFile, Undefined)
    \/ \E rq \in InFlight : UploadFileInsert(rq, FALSE)
    \/ \E id \in IdParams : DeleteSelect(id, Undefined, FALSE)
    \/ \E rq \in InFlight : DeleteUnlink(rq)
    \/ \E rq \in InFlight : DeleteRun(rq, FALSE)
    \/ \E err \in BOOLEAN : AllContent(err)

SpecList == InitContent /\ [][NextList]_vars

\* the delete route with a file system that may refuse to remove a file; a
\* process that has ended takes no step until it is started again
NextCrash ==
    \/ Serving /\ UploadFileReceive(Key1, PngFile, Undefined)
    \/ Serving /\ \E rq \in InFlight : UploadFileInsert(rq, FALSE)
    \/ Serving /\ SaveText(Key2, "A", Undefined, FALSE)
    \/ Serving /\ \E id \in IdParams : DeleteSelect(id, Undefined, FALSE)
    \/ Serving /\ \E rq \in InFlight : DeleteUnlink(rq)
    \/ Serving /\ \E rq \in InFlight : DeleteUnlinkThrows(rq)
    \/ Serving /\ \E rq \in InFlight, err \in BOOLEAN : DeleteRun(rq, err)
    \/ ~Serving /\ Restart

SpecCrash == InitContent /\ [][NextCrash]_vars

\* the columns of the rows: writes of one key as the clock advances, by
\* requests with and without the field `content`
NextRows ==
    \/ \E text \in Texts \cup {Undefined} : SaveText(Key1, text, Undefined, FALSE)
    \/ UploadFileReceive(Key1Padded, PngFile, Undefined)
    \/ \E rq \in InFlight, err \in BOOLEAN : UploadFileInsert(rq, err)
    \/ \E id \in IdParams : DeleteSelect(id, Undefined, FALSE)
    \/ \E rq \in InFlight : DeleteUnlink(rq)
    \/ \E rq \in InFlight : DeleteRun(rq, FALSE)
    \/ \E key \in {Key1, Key2} : GetContent(key, FALSE)
    \/ Tick

SpecRows == InitContent /\ [][NextRows]_vars

\* the credential over the life of the database file: rotations that
\* overlap, and processes started again on the file
NextRotation ==
    \/ InitSelect
    \/ InitSelectFails
    \/ \E salt \in Salts : InitInsert(salt)
    \/ \E p \in Passwords \cup NewPasswords : VerifyPassword(p, FALSE)
    \/ \E old \in Passwords, new \in NewPasswords :
          ChangePasswordSelect(old, new, FALSE)
    \/ \E rq \in InFlight, salt \in Salts, err \in BOOLEAN :
          ChangePasswordUpdate(rq, salt, err)
    \/ Restart

SpecRotation == Init /\ [][NextRotation]_vars

\* every route that writes, by requests that carry a credential or none
NextGateway ==
    \/ InitSelect
    \/ \E salt \in Salts : InitInsert(salt)
    \/ \E old \in Passwords, new \in Passwords : ChangePasswordSelect(old, new, FALSE)
    \/ \E rq \in InFlight, salt \in Salts : ChangePasswordUpdate(rq, salt, FALSE)
    \/ \E p \in Credentials : UploadFileReceive(Key1, PngFile, p)
    \/ \E rq \in InFlight : UploadFileInsert(rq, FALSE)
    \/ \E p \in Credentials : SaveText(Key1, "A", p, FALSE)
    \/ \E p \in Credentials : DeleteSelect(<<"1">>, p, FALSE)
    \/ \E rq \in InFlight : DeleteUnlink(rq)
    \/ \E rq \in InFlight : DeleteRun(rq, FALSE)

SpecGateway == Init /\ [][NextGateway]_vars

----------------------------------------------------------------------------
(* Properties *)

SameKey(a, b) ==
    a.subject = b.subject /\ a.feature = b.feature /\ a.chapter = b.chapter

\* the row is the item of the key a request names
RowOfKey(row, key) ==
    /\ row.subject = key.subject
    /\ row.feature = key.feature
    /\ row.chapter = ToInteger(key.chapter)

\* the request that the step taken has just added to those in flight
Accepted(rq) == CopiesIn(rq, inflight') > CopiesIn(rq, inflight)

\* the held request that the step taken has just answered
Answered(rq) ==
    /\ CopiesIn(rq, inflight') < CopiesIn(rq, inflight)
    /\ res'.op = rq.op
    /\ res'.req = rq

\* C1: in every reachable state the content table holds at most one row for
\* each (subject, feature, chapter), whatever uploads, saves and deletes
\* have run and however their steps interleaved.
C1_OneRowPerKey ==
    \A a \in content, b \in content : SameKey(a, b) => a = b

\* a second write to the same key has committed and replaced the first
C1_Witness ==
    /\ res.op \in {"save-text", "upload-file"}
    /\ res.success
    /\ seq = 2
    /\ \E row \in content : row.id = 2 /\ RowOfKey(row, res.req)
    /\ Cardinality(content) = 1

\* C2: when save-text(k, t) has just been answered with success, get(k)
\* answers with the one item of k, of content_type 'text' and with
\* text_content t, whatever k held before.
C2_SaveThenGet ==
    (res.op = "save-text" /\ res.success) =>
        /\ Cardinality(SelectContent(res.req)) = 1
        /\ ContentJson(res.req).success
        /\ ContentJson(res.req).body.content_type = "text"
        /\ ContentJson(res.req).body.text_content = res.req.content

\* "B" has been saved over an item the key held before
C2_Witness ==
    /\ res.op = "save-text"
    /\ res.success
    /\ res.req.content = "B"
    /\ seq = 2
    /\ Cardinality(content) = 1
    /\ ContentJson(res.req).body.text_content = "B"

\* C3, as claimed: when save-text(k, t) is answered with success and k
\* held a FILE item, the file of that item is no longer in uploads.
C3_TextReplacesFile_Claimed ==
    [][\A row \in content :
          ( /\ res'.op = "save-text"
            /\ res'.success
            /\ RowOfKey(row, res'.req)
            /\ row.content_type = "file" )
          => basename(row.file_path) \notin uploads']_vars

\* C4, as claimed: when upload-file(k, b2) is answered with success and k
\* held a FILE item of another file b1, b1 is no longer in uploads.
C4_FileReplacesFile_Claimed ==
    [][\A row \in content, rq \in InFlight :
          ( /\ rq.op = "upload-file"
            /\ Answered(rq)
            /\ res'.success
            /\ RowOfKey(row, rq)
            /\ row.content_type = "file"
            /\ row.file_path # UploadPath(rq.file.filename) )
          => basename(row.file_path) \notin uploads']_vars

\* C5: when delete(id) is answered with success, and the row of that id is
\* a FILE item that the request's SELECT has read, then the row is gone,
\* its file is not in uploads and get of its key answers 'No content found'.
C5_DeleteFile ==
    [][\A row \in content, rq \in InFlight :
          ( /\ rq.op = "delete"
            /\ Answered(rq)
            /\ res'.success
            /\ row.id = ToInteger(rq.id)
            /\ row.content_type = "file"
            /\ rq.row = [file_path |-> row.file_path] )
          => /\ \A left \in content' : left.id # row.id
             /\ basename(row.file_path) \notin uploads'
             /\ \A key \in KeyParams :
                   RowOfKey(row, key) =>
                       /\ ~ContentJson(key)'.success
                       /\ ContentJson(key)'.message = "No content found"]_vars

\* a delete that read a FILE row has been answered with success
C5_Witness ==
    /\ res.op = "delete"
    /\ res.success
    /\ res.req.row # NoRow
    /\ res.req.row.file_path # NullPath
    /\ basename(res.req.row.file_path) \notin uploads
    /\ \A row \in content : row.id # ToInteger(res.req.id)

\* C6, as claimed: delete(id) whose SELECT found no row, and whose DELETE
\* finds none, is answered with a negative result and changes nothing.
C6_DeleteMissing_Claimed ==
    [][\A rq \in InFlight :
          ( /\ rq.op = "delete"
            /\ Answered(rq)
            /\ rq.row = NoRow
            /\ \A row \in content : row.id # ToInteger(rq.id) )
          => /\ ~res'.success
             /\ content' = content
             /\ uploads' = uploads]_vars

\* the password a stored credential was made from
PlainOf(hash) == IF variant = "server.js" THEN hash ELSE hash[3]

\* p is the current password
IsCurrent(p) == \E row \in AdminRows : PlainOf(row.password_hash) = p

\* the credential a request supplies
Supplied(request) ==
    IF request.op = "change-password" THEN request.oldPassword ELSE request.password

\* C7, as claimed: once the credential record exists, a step that changes
\* the content table, the uploads directory or the credential record
\* belongs to a request whose supplied credential has been verified; for
\* change-password that is the comparison its first step made, for the
\* other routes the credential must be the current password.
C7_Authorized_Claimed ==
    [][ AdminRows # {} =>
           /\ content' # content =>
                 /\ res'.op \in {"upload-file", "save-text", "delete"}
                 /\ Supplied(res'.req) # Undefined
                 /\ IsCurrent(Supplied(res'.req))
           /\ uploads' # uploads =>
                 \E rq \in BagToSet(inflight') :
                     /\ rq.op \in {"upload-file", "delete"}
                     /\ Supplied(rq) # Undefined
                     /\ IsCurrent(Supplied(rq))
           /\ admin' # admin =>
                 \E rq \in InFlight : rq.op = "change-password" /\ Answered(rq) ]_vars

\* C8, as claimed: verify-password(p) succeeds exactly when p is the current
\* password, and after change-password(old, new) has succeeded the record
\* accepts new and refuses old, for all old and new.
C8_Rotate_Claimed ==
    /\ (res.op = "verify-password" /\ res.status = 200) =>
          (res.success <=> IsCurrent(res.req.password))
    /\ (res.op = "change-password" /\ res.success) =>
          /\ Matches(res.req.newPassword)
          /\ ~Matches(res.req.oldPassword)

\* C8, amended: the same, for all old and all new different from old.
C8_Rotate ==
    /\ (res.op = "verify-password" /\ res.status = 200) =>
          (res.success <=> IsCurrent(res.req.password))
    /\ (res.op = "change-password" /\ res.success) =>
          /\ Matches(res.req.newPassword)
          /\ (res.req.newPassword # res.req.oldPassword
                => ~Matches(res.req.oldPassword))

\* the default password has been replaced by another
C8_Witness ==
    /\ res.op = "change-password"
    /\ res.success
    /\ res.req.oldPassword = defaultPassword
    /\ res.req.newPassword # defaultPassword
    /\ IsCurrent(res.req.newPassword)

\* C9: change-password(old, new) whose old is not the current password when
\* the request compares it is answered with success:false, is not taken on
\* to the UPDATE, and leaves admin_settings as it was.
C9_WrongOldRejected ==
    [][ /\ ( /\ res'.op = "change-password"
             /\ inflight' = inflight
             /\ ~IsCurrent(res'.req.oldPassword) )
           => (~res'.success /\ admin' = admin)
        /\ \A rq \in BagToSet(inflight') :
              (rq.op = "change-password" /\ Accepted(rq))
              => (IsCurrent(rq.oldPassword) /\ admin' = admin) ]_vars

\* a change-password with a wrong old password has been refused while a
\* credential is stored
C9_Witness ==
    /\ res.op = "change-password"
    /\ res.status = 200
    /\ ~res.success
    /\ admin # {}
    /\ ~IsCurrent(res.req.oldPassword)

\* the files the claim names as refused: none, an extension outside the
\* allowed set ('.exe'), a declared type outside it
Refused(file) ==
    \/ file.originalname = NoFile.originalname
    \/ file.originalname = ExeFile.originalname
    \/ file.mimetype = MislabelledFile.mimetype

\* C10: an upload-file request without a file, or with a file of an
\* extension or declared type outside the allowed set, is answered with a
\* failure, and the answer of list_all, like the uploads directory, is the
\* same before and after it.
C10_RejectedUpload ==
    [][ (res'.op = "upload-file" /\ Refused(res'.req.file))
        => /\ ~res'.success
           /\ res'.status \in {400, 500}
           /\ SelectAll' = SelectAll
           /\ uploads' = uploads
           /\ inflight' = inflight ]_vars

\* an '.exe' upload has been refused while the table holds a row
C10_Witness ==
    /\ res.op = "upload-file"
    /\ res.req.file = ExeFile
    /\ ~res.success
    /\ content # {}

----------------------------------------------------------------------------
(* Concurrent writers *)

\* a save-text request whose statement has committed and whose callback has
\* not run yet
Committed(rq) ==
    /\ rq.op = "save-text"
    /\ rq.at = "respond"
    /\ ~rq.err

\* two requests name one slot: the chapters are equal as integers
SameSlot(a, b) ==
    /\ a.subject = b.subject
    /\ a.feature = b.feature
    /\ ToInteger(a.chapter) = ToInteger(b.chapter)

\* C11: when two save-text requests on one key were in flight together and
\* both have committed, and nothing was written after them, the table holds
\* exactly one row for the key, and its text is the text of the request
\* that committed last: never two rows, never another value.
C11_ConcurrentSaveText ==
    \A a \in InFlight, b \in InFlight :
        ( /\ Committed(a) /\ Committed(b)
          /\ a # b
          /\ SameSlot(a, b)
          /\ a.lastID < b.lastID
          /\ seq = b.lastID )
        => LET rows == {row \in content : RowOfKey(row, b)}
           IN  /\ Cardinality(rows) = 1
               /\ \A row \in rows : /\ row.content_type = "text"
                                    /\ row.text_content = b.content
                                    /\ row.text_content \in {a.content, b.content}

\* "A" and "B" were queued for one key, both have committed, "B" last, and
\* neither has been answered yet
C11_Witness ==
    \E a \in InFlight, b \in InFlight :
        /\ Committed(a) /\ Committed(b)
        /\ SameSlot(a, b)
        /\ a.content = "A" /\ b.content = "B"
        /\ a.lastID < b.lastID
        /\ seq = b.lastID
        /\ \E row \in content : RowOfKey(row, b) /\ row.text_content = "B"

----------------------------------------------------------------------------
(* The listing *)

\* (subject, feature, chapter) of a is at most that of b: the strings
\* compared byte by byte, the chapters as numbers
KeyAtMost(a, b) ==
    \/ BytesLess(Bytes(a.subject), Bytes(b.subject))
    \/ /\ a.subject = b.subject
       /\ \/ BytesLess(Bytes(a.feature), Bytes(b.feature))
          \/ /\ a.feature = b.feature
             /\ a.chapter <= b.chapter

\* C12: the answer of all-content holds every row of the table exactly
\* once, in ascending order of (subject, feature, chapter), strings in
\* lexicographic and chapters in numeric order, whatever the order in which
\* the rows were written.
C12_ListOrdered ==
    (res.op = "all-content" /\ res.success)
    => /\ Len(res.body) = Cardinality(content)
       /\ {res.body[i] : i \in 1..Len(res.body)} = content
       /\ \A i \in 1..Len(res.body), j \in 1..Len(res.body) :
             i < j => KeyAtMost(res.body[i], res.body[j])

\* a listing of two rows of one subject in which chapter 2, written after
\* chapter 10, comes first
C12_Witness ==
    /\ res.op = "all-content" /\ res.success
    /\ Len(res.body) = 2
    /\ res.body[1].id > res.body[2].id
    /\ res.body[1].subject = res.body[2].subject
    /\ res.body[1].chapter = 2 /\ res.body[2].chapter = 10

----------------------------------------------------------------------------
(* Rows and their files *)

\* C13, as claimed: in every state, also between two steps of a request,
\* the file_path of every row of type 'file' names a file that is present
\* in the uploads directory.
C13_FileRowHasBlob_Claimed ==
    \A row \in content :
        row.content_type = "file" => basename(row.file_path) \in uploads

\* C14, as claimed: a step that removes a file from the uploads directory
\* comes after the write that took the file's row out of the table, so no
\* row references the file when it is removed; and a delete that is
\* answered with the failure of its DELETE has left the file of the row it
\* read in place.
C14_RemovalAfterCommit_Claimed ==
    [][ /\ \A name \in uploads \ uploads' :
              \A row \in content :
                  row.content_type = "file" => basename(row.file_path) # name
        /\ \A rq \in InFlight :
              ( /\ rq.op = "delete"
                /\ Answered(rq)
                /\ ~res'.success
                /\ rq.row # NoRow
                /\ rq.row.file_path # NullPath
                /\ \E row \in content' : row.file_path = rq.row.file_path )
              => basename(rq.row.file_path) \in uploads' ]_vars

\* the step taken is a step of the held request rq
StepOf(rq) == CopiesIn(rq, inflight') < CopiesIn(rq, inflight)

\* C16, as claimed: while a delete is between its SELECT and its DELETE,
\* no step of another request writes the slot of the row the delete read:
\* the row the delete targets stays as it is until the delete's own step.
C16_OneWriterPerKey_Claimed ==
    [][\A rq \in InFlight, row \in content :
          ( /\ rq.op = "delete"
            /\ row.id = ToInteger(rq.id)
            /\ rq.row = [file_path |-> row.file_path]
            /\ ~StepOf(rq) )
          => \A other \in content' :
                 (other.subject = row.subject /\ other.feature = row.feature
                  /\ other.chapter = row.chapter) => other = row ]_vars

----------------------------------------------------------------------------
(* Failures of the file system *)

\* C15, as claimed: whatever the removal of the file does, the callback of
\* a delete's SELECT is not the end of the process: after it the process
\* serves, and the delete goes on to its DELETE, which removes the row and
\* answers success.
C15_UnlinkFailureNotFatal_Claimed ==
    [][\A rq \in InFlight :
          ( /\ Serving
            /\ rq.op = "delete" /\ rq.at = "unlink"
            /\ StepOf(rq) )
          => /\ Serving'
             /\ [rq EXCEPT !.at = "delete"] \in BagToSet(inflight') ]_vars

----------------------------------------------------------------------------
(* The columns of a row *)

\* C17, as claimed: when a successful upload-file or save-text replaces
\* the row of a key, the new row has the created_at of the row it
\* replaces.
C17_CreatedAtKept_Claimed ==
    [][\A row \in content, new \in content' :
          ( /\ res'.op \in {"upload-file", "save-text"}
            /\ res'.success
            /\ RowOfKey(new, res'.req)
            /\ RowOfKey(row, res'.req) )
          => new.created_at = row.created_at ]_vars

\* C18, as claimed: in every state, a row of type 'file' has a file_path
\* and no text_content, and a row of type 'text' has a text_content and no
\* file_path.
C18_OneOfPathAndText_Claimed ==
    \A row \in content :
        /\ row.content_type \in {"file", "text"}
        /\ row.content_type = "file" =>
              (row.file_path # NullPath /\ row.text_content = NULL)
        /\ row.content_type = "text" =>
              (row.text_content # NULL /\ row.file_path = NullPath)

----------------------------------------------------------------------------
(* The credential record over restarts and overlapping rotations *)

\* C19, as claimed: admin_settings never holds more than one record; a
\* step of initDatabase on a table that holds a record leaves the table as
\* it is; and its INSERT on an empty table leaves exactly one record, under
\* which the default password verifies.
C19_InitIdempotent_Claimed ==
    [][ /\ Cardinality(admin') <= 1
        /\ (admin # {} /\ initPc # "done" /\ initPc' # initPc) => admin' = admin
        /\ (admin = {} /\ initPc = "insert" /\ initPc' = "done") =>
              /\ Cardinality(admin') = 1
              /\ \E row \in AdminRows' : PlainOf(row.password_hash) = defaultPassword
      ]_vars

\* C20, as claimed: a change-password is answered with success only if its
\* old password is the password stored when its UPDATE is applied.
C20_AtomicRotation_Claimed ==
    [][\A rq \in InFlight :
          (rq.op = "change-password" /\ Answered(rq) /\ res'.success)
          => IsCurrent(rq.oldPassword) ]_vars

====
